---------------------------- MODULE Spec2Model ----------------------------
(***************************************************************************)
(* Face Blur Studio: region consolidation (iou, nms, detectFaces) and the  *)
(* per-region pixel effects of ImageProcessor.tsx.                         *)
(*                                                                         *)
(* Eight specifications share the variables below; each holds the            *)
(* variables of the others at their idle values.                           *)
(*   SpecNms      - the pure functions iou and nms of pages/Index.tsx      *)
(*   Spec         - detectFaces, the page's filter and processImage        *)
(*   SpecSort     - pixelSortRegion / pixelSortEyeRegion on a pixel buffer *)
(*   SpecPixels   - pixelateRegion and blurRegion on their ImageData       *)
(*   SpecDetector - overlapping detectFaces calls and the detector handle  *)
(*   SpecBatch    - the image list of BatchProcessor and processBatch      *)
(*   SpecSortNarrow - SpecSort on narrow rectangles, with fairness         *)
(*   SpecPage     - single-image mode: file selection, Clear, detection    *)
(*                                                                         *)
(* Numbers: box coordinates are exact integers (pixels) in SpecNms; a      *)
(* confidence or a threshold c is held as the integer 100*c.               *)
(***************************************************************************)
EXTENDS Integers, Sequences, FiniteSets, TLC

VARIABLES
    \* ---- SpecNms: iou / nms applied to drawn inputs
    boxes,          \* the input list of BoxLike
    iouThreshold,   \* the threshold, in hundredths
    kept,           \* nms(boxes, iouThreshold)
    keptAgain,      \* nms(kept, iouThreshold)
    iouAB,          \* iou(a, b) of the last iou call
    iouBA,          \* iou(b, a) of the last iou call
    iouArgs,        \* <<a, b>> of the last iou call
    npc,            \* "start" | "nms" | "again" | "iou" | "idle"
    \* ---- Spec: detectFaces -> filter -> processImage for one image
    imgW, imgH,     \* naturalWidth, naturalHeight of the image (pixels)
    model,          \* the module-level detector handle: "null" | "loaded"
    pc,             \* where the pipeline stands
    pass1,          \* pass 1: whether estimateFaces ran, and what it returned
    pass2,          \* pass 2: whether estimateFaces ran, and what it returned
    detectorFailed, \* the detector threw (initialisation or estimateFaces)
    faces,          \* the list detectFaces returned
    filteredFaces,  \* the faces passed to processImage
    censorType,     \* the effect processImage was called with
    confidenceThreshold, minFaceSize,  \* the detection controls of the page
    fi,             \* processImage: number of faces already handled
    lastFx,         \* what the last applyCensoring call did
    \* ---- SpecSort: one call of a pixel-sort effect on its ImageData
    sortFn,         \* "pixelSortRegion" | "pixelSortEyeRegion" | "none"
    intensity,      \* the sort intensity of the call
    iw, ih,         \* width and height of the rectangle read
    sampled,        \* the rows getImageData returned
    data,           \* imageData.data, as rows of pixels
    row,            \* the row loop's variable
    rowPixels,      \* the row being sorted
    intervals,      \* its spans, in the order they are sorted
    done,           \* number of spans already handled in this row
    lastSpan,       \* the span the last sort was given
    lastBefore,     \* the pixels of that span just before that sort
    spc,            \* "row" | "sorting" | "looping" | "put" | "off"
    canvas,         \* the canvas rows under the rectangle, from column ix on
    bufW,           \* how many columns of the rectangle lie inside the canvas
    run,            \* 1: first application of the effect, 2: the effect re-applied
    firstOut,       \* the canvas as the first application left it
    \* ---- SpecPixels: one call of pixelateRegion or blurRegion on its ImageData
    pixFn,          \* "pixelateRegion" | "blurRegion" | "none"
    pixParam,       \* pixelSize of pixelateRegion, radius of blurRegion
    pixIn,          \* the rows getImageData returned
    pixOut,         \* the rows handed to putImageData
    pass,           \* blurRegion: number of passes completed
    original,       \* blurRegion: the copy `original` the last 1D pass read
    ppc,            \* "read" | "horizontal" | "vertical" | "put" | "off"
    \* ---- SpecDetector: concurrent detectFaces calls on the detector handle
    handle,         \* the module-level `model`: 0 for null, else the id of a load
    loads,          \* models constructed since the last cleanupDetector
    calls,          \* detectFaces calls made so far
    cpc,            \* per call: "idle" | "ready" | "loading" | "got"
    detector,       \* per call: what initializeDetector returned (0: nothing yet)
    \* ---- SpecBatch: BatchProcessor, its image list and processBatch
    images,         \* the status of every image of the list
    isProcessing,   \* the state isProcessing
    progress,       \* the state progress as <<numerator, denominator>>
    captured,       \* how many images the running processBatch closed over
    bi,             \* the loop variable i of processBatch
    begun,          \* images whose detection this run has started
    ended,          \* images this run has marked 'completed' or 'error'
    batchFaces,     \* the faces the last processImage call of the batch was given
    props,          \* the props censorType, confidenceThreshold, minFaceSize
    closure,        \* the list `images` the running processBatch closed over
    reported,       \* completedCount of the last completion message (-1: none)
    bpc,            \* "idle" | "detect" | "finished" | "off"
    \* ---- SpecPage: single-image mode, Index with CombinedUploadPreview
    originalImage,  \* the state originalImage: 0 for null, else the file's number
    pageFaces,      \* the state faces of the page
    pageFiltered,   \* the state filteredFaces of the page
    facesOf,        \* the image pageFaces was detected on (0: set by no detection)
    reading,        \* files selected whose FileReader / Image has not loaded yet
    detecting,      \* images whose detectFaces call has not resolved yet
    selected,       \* files selected so far
    gpc             \* "page" | "off"

nmsVars == <<boxes, iouThreshold, kept, keptAgain, iouAB, iouBA, iouArgs, npc>>
detVars == <<imgW, imgH, model, pc, pass1, pass2, detectorFailed, faces>>
fxVars == <<filteredFaces, censorType, confidenceThreshold, minFaceSize, fi, lastFx>>

sortVars == <<sortFn, intensity, iw, ih, sampled, data, row, rowPixels, intervals,
              done, lastSpan, lastBefore, spc, canvas, bufW, run, firstOut>>

pixVars == <<pixFn, pixParam, pixIn, pixOut, pass, original, ppc>>

detectorVars == <<handle, loads, calls, cpc, detector>>

batchVars == <<images, isProcessing, progress, captured, bi, begun, ended,
               batchFaces, props, closure, reported, bpc>>

pageVars == <<originalImage, pageFaces, pageFiltered, facesOf, reading, detecting,
              selected, gpc>>

asyncVars == <<detectorVars, batchVars, pageVars>>

vars == <<nmsVars, detVars, fxVars, sortVars, pixVars, asyncVars>>

\* what the actions of one specification leave alone
otherThanNms == <<detVars, fxVars, sortVars, pixVars, asyncVars>>
otherThanPipe == <<nmsVars, sortVars, pixVars, asyncVars>>
otherThanSort == <<nmsVars, detVars, fxVars, pixVars, asyncVars>>
otherThanPix == <<nmsVars, detVars, fxVars, sortVars, asyncVars>>
otherThanDetector == <<nmsVars, detVars, fxVars, sortVars, pixVars, batchVars,
                       pageVars>>
otherThanBatch == <<nmsVars, detVars, fxVars, sortVars, pixVars, detectorVars,
                    pageVars>>
otherThanPage == <<nmsVars, detVars, fxVars, sortVars, pixVars, detectorVars,
                   batchVars>>

NoSpan == [start |-> 0, end |-> 0]

SortIdle ==
    /\ sortFn = "none" /\ intensity = 0 /\ iw = 0 /\ ih = 0
    /\ sampled = <<>> /\ data = <<>> /\ row = 0 /\ rowPixels = <<>>
    /\ intervals = <<>> /\ done = 0 /\ lastSpan = NoSpan /\ lastBefore = <<>>
    /\ spc = "off"
    /\ canvas = <<>> /\ bufW = 0 /\ run = 0 /\ firstOut = <<>>

PixIdle ==
    pixFn = "none" /\ pixParam = 0 /\ pixIn = <<>> /\ pixOut = <<>>
    /\ pass = 0 /\ original = <<>> /\ ppc = "off"

DetectorIdle ==
    handle = 0 /\ loads = 0 /\ calls = 0 /\ cpc = <<>> /\ detector = <<>>

BatchIdle ==
    /\ images = <<>> /\ isProcessing = FALSE /\ progress = <<0, 1>>
    /\ captured = 0 /\ bi = 0 /\ begun = {} /\ ended = {}
    /\ batchFaces = <<>> /\ props = <<>> /\ closure = <<>> /\ reported = -1
    /\ bpc = "off"

PageIdle ==
    /\ originalImage = 0 /\ pageFaces = <<>> /\ pageFiltered = <<>> /\ facesOf = 0
    /\ reading = {} /\ detecting = {} /\ selected = 0 /\ gpc = "off"

AsyncIdle == DetectorIdle /\ BatchIdle /\ PageIdle

----------------------------------------------------------------------------
(* Bounds of the model *)

MaxBoxes == 3
MaxFaces == 2

----------------------------------------------------------------------------
(* Helpers *)

Max(a, b) == IF a >= b THEN a ELSE b
Min(a, b) == IF a <= b THEN a ELSE b

Range(s) == {s[i] : i \in 1..Len(s)}

SeqsUpTo(S, n) == UNION {[1..k -> S] : k \in 0..n}

----------------------------------------------------------------------------
(* pages/Index.tsx: iou *)

\* A quotient n/d with d > 0; the value 0 is <<0, 1>>.
Quot(n, d) == [num |-> n, den |-> d]

interW(a, b) == Max(0, Min(a.x + a.width, b.x + b.width) - Max(a.x, b.x))
interH(a, b) == Max(0, Min(a.y + a.height, b.y + b.height) - Max(a.y, b.y))
intersection(a, b) == interW(a, b) * interH(a, b)

\* A plausible slip: the union without the intersection taken off.
unionNoSubtract(a, b) == a.width * a.height + b.width * b.height

union(a, b) == a.width * a.height + b.width * b.height - intersection(a, b)

iou(a, b) ==
    IF union(a, b) > 0 THEN Quot(intersection(a, b), union(a, b)) ELSE Quot(0, 1)

\* q > t/100
Exceeds(q, t) == q.num * 100 > t * q.den

----------------------------------------------------------------------------
(* pages/Index.tsx: nms *)

\* A plausible slip: an unstable sort that puts a later equal-confidence box first.
RECURSIVE insertTiesFirst(_, _)
insertTiesFirst(sorted, b) ==
    IF sorted = <<>> THEN <<b>>
    ELSE IF Head(sorted).confidence > b.confidence
         THEN <<Head(sorted)>> \o insertTiesFirst(Tail(sorted), b)
         ELSE <<b>> \o sorted

\* [...boxes].sort((a, b) => b.confidence - a.confidence): Array.prototype.sort is
\* stable, so b goes after every box whose confidence is >= its own.
RECURSIVE insertByConfidence(_, _)
insertByConfidence(sorted, b) ==
    IF sorted = <<>> THEN <<b>>
    ELSE IF Head(sorted).confidence >= b.confidence
         THEN <<Head(sorted)>> \o insertByConfidence(Tail(sorted), b)
         ELSE <<b>> \o sorted

RECURSIVE sortByConfidence(_)
sortByConfidence(s) ==
    IF s = <<>> THEN <<>>
    ELSE insertByConfidence(sortByConfidence(SubSeq(s, 1, Len(s) - 1)), s[Len(s)])

\* A plausible slip: the candidate is compared with the last kept box only.
overlapsLastOnly(cand, k, t) ==
    Len(k) > 0 /\ Exceeds(iou(cand, k[Len(k)]), t)

\* the inner loop: some kept box has iou(cand, k) > iouThreshold
overlaps(cand, k, t) == \E i \in 1..Len(k) : Exceeds(iou(cand, k[i]), t)

RECURSIVE nmsLoop(_, _, _)
nmsLoop(sorted, k, t) ==
    IF sorted = <<>> THEN k
    ELSE nmsLoop(Tail(sorted),
                 IF overlaps(Head(sorted), k, t) THEN k ELSE Append(k, Head(sorted)),
                 t)

\* A plausible slip: the boxes are gone over in input order, without the sort.
nmsUnsorted(bs, t) == nmsLoop(bs, <<>>, t)

nms(bs, t) == nmsLoop(sortByConfidence(bs), <<>>, t)

----------------------------------------------------------------------------
(* SpecNms: inputs drawn from bounded sets, then the functions applied *)

Box(x, y, w, h, c) == [x |-> x, y |-> y, width |-> w, height |-> h, confidence |-> c]

\* Small boxes on a line (some degenerate), and the two boxes of the 800x600 scenario.
GridBoxes == {Box(x, 0, w, 2, c) : x \in 0..2, w \in {0, 2}, c \in {60, 85}}
ScenarioBoxes == {Box(200, 100, 160, 240, 85), Box(210, 105, 150, 230, 60)}
\* a box whose IoU with Box(0, 0, 2, 2, c) is exactly 0.5, one of the thresholds
BoundaryBox == Box(0, 0, 4, 2, 60)
BoxSet == GridBoxes \cup ScenarioBoxes \cup {BoundaryBox}

Thresholds == {25, 35, 50}

NoQuot == Quot(0, 0)

NmsIdle ==
    /\ boxes = <<>> /\ iouThreshold = 0 /\ kept = <<>> /\ keptAgain = <<>>
    /\ iouAB = NoQuot /\ iouBA = NoQuot /\ iouArgs = <<>> /\ npc = "idle"

InitNms ==
    /\ boxes \in SeqsUpTo(BoxSet, MaxBoxes)
    /\ iouThreshold \in Thresholds
    /\ kept = <<>> /\ keptAgain = <<>>
    /\ iouAB = NoQuot /\ iouBA = NoQuot /\ iouArgs = <<>>
    /\ npc = "start"

CallNms ==
    /\ npc = "start"
    /\ kept' = nms(boxes, iouThreshold)
    /\ npc' = "nms"
    /\ UNCHANGED <<boxes, iouThreshold, keptAgain, iouAB, iouBA, iouArgs, otherThanNms>>

CallNmsAgain ==
    /\ npc = "nms"
    /\ keptAgain' = nms(kept, iouThreshold)
    /\ npc' = "again"
    /\ UNCHANGED <<boxes, iouThreshold, kept, iouAB, iouBA, iouArgs, otherThanNms>>

CallIou ==
    /\ npc = "start"
    /\ \E i \in 1..Len(boxes), j \in 1..Len(boxes) :
          /\ iouArgs' = <<boxes[i], boxes[j]>>
          /\ iouAB' = iou(boxes[i], boxes[j])
          /\ iouBA' = iou(boxes[j], boxes[i])
    /\ npc' = "iou"
    /\ UNCHANGED <<boxes, iouThreshold, kept, keptAgain, otherThanNms>>

NextNms == CallNms \/ CallNmsAgain \/ CallIou

----------------------------------------------------------------------------
(* Claims on iou and nms *)

\* C1: any two distinct boxes (positions) of the list nms returns have IoU <= t.
NmsPairwiseBelowThreshold ==
    npc \in {"nms", "again"} =>
        \A i \in 1..Len(kept), j \in 1..Len(kept) :
            i # j => ~Exceeds(iou(kept[i], kept[j]), iouThreshold)

\* C1 witness: nms has suppressed a box and still returned more than one.
NmsSuppressedSome == npc = "nms" /\ Len(kept) >= 2 /\ Len(kept) < Len(boxes)

\* C8: nms applied to its own output returns the same list, in the same order.
NmsIdempotent == npc = "again" => keptAgain = kept

\* C8 witness: the second run had several boxes to go over, after a real suppression.
NmsRerunOnSeveral ==
    /\ npc = "again" /\ Len(kept) >= 2 /\ Len(kept) < Len(boxes)
    /\ \E i \in 1..Len(kept), j \in 1..Len(kept) :
          i # j /\ kept[i].confidence = kept[j].confidence /\ kept[i] # kept[j]

\* C9: iou(a, b) equals iou(b, a), and iou(a, a) is 1 for a box of positive size.
IouSymmetricReflexive ==
    npc = "iou" =>
        /\ iouAB = iouBA
        /\ (iouArgs[1] = iouArgs[2] /\ iouArgs[1].width > 0 /\ iouArgs[1].height > 0)
              => (iouAB.num = iouAB.den /\ iouAB.den > 0)

\* C9 witness: iou of two different overlapping boxes has been taken.
IouOfOverlappingPair ==
    /\ npc = "iou" /\ iouArgs[1] # iouArgs[2]
    /\ iouAB.num > 0 /\ iouAB.num < iouAB.den

----------------------------------------------------------------------------
(* Fixed-point numbers of the pipeline.                                     *)
(* A coordinate of a DetectedFace or of a landmark is held in thousandths   *)
(* of a pixel (the real value v is the integer 1000*v).  The images and     *)
(* detector boxes below are chosen so that every product the code forms is  *)
(* exact at this resolution.                                                *)

Milli == 1000

Px(n) == n * Milli

\* v * (num/den), e.g. width * 0.3 is Mul(width, 3, 10)
Mul(v, num, den) == (v * num) \div den

\* Math.floor and Math.round (half up), from thousandths to whole pixels
Floor(v) == v \div Milli
Round(v) == (v + 500) \div Milli

Abs(v) == IF v < 0 THEN 0 - v ELSE v

Point(x, y) == [x |-> x, y |-> y]

----------------------------------------------------------------------------
(* components/FaceDetection.tsx: generateDetailedLandmarks *)

contourPoints == 20

\* 1000*cos(angle) and 1000*sin(angle) for angle = (i/20)*2*PI - PI/2, i = 0..19
CosTable == <<0, 309, 588, 809, 951, 1000, 951, 809, 588, 309,
              0, -309, -588, -809, -951, -1000, -951, -809, -588, -309>>
SinTable == <<-1000, -951, -809, -588, -309, 0, 309, 588, 809, 951,
              1000, 951, 809, 588, 309, 0, -309, -588, -809, -951>>

generateDetailedLandmarks(r) ==
    LET centerX == r.x + Mul(r.width, 5, 10)
        centerY == r.y + Mul(r.height, 5, 10)
        fx(n) == r.x + Mul(r.width, n, 100)
        fy(n) == r.y + Mul(r.height, n, 100)
    IN  << Point(fx(30), fy(35)), Point(fx(70), fy(35)),            \* eyes
           Point(centerX, fy(45)), Point(centerX, fy(55)),          \* nose
           Point(fx(40), fy(75)), Point(centerX, fy(75)), Point(fx(60), fy(75)),
           Point(fx(25), fy(25)), Point(fx(75), fy(25)),            \* eyebrows
           Point(centerX, fy(90)) >>                                \* chin
        \o [i \in 1..contourPoints |->
              Point(centerX + Mul(Mul(r.width, 45, 100), CosTable[i], 1000),
                    centerY + Mul(Mul(r.height, 48, 100), SinTable[i], 1000))]

----------------------------------------------------------------------------
(* components/FaceDetection.tsx: detectFaces *)

\* the downscale cutover and target width of the second pass
targetWidth == 640

\* the detector-artifact filter: width < 20 || height < 20 is skipped
MinDetectSize == 20

\* confidence when prediction.probability is no array: 0.9
DefaultConfidence == 90

\* Math.round(naturalHeight * (targetWidth / naturalWidth))
targetHeight(W, H) == (2 * H * targetWidth + W) \div (2 * W)

\* scaleX = naturalWidth / targetWidth, scaleY = naturalHeight / targetHeight
\* (whole numbers for the images of this model)
downScaleX(W, H) == W \div targetWidth
downScaleY(W, H) == H \div targetHeight(W, H)

\* One prediction of the detector, in the coordinates of the pass (pixels).
\* hasLandmarks: prediction.landmarks is truthy (an array, possibly empty);
\* probIsArray: Array.isArray(prediction.probability); probability[0] in hundredths.
Prediction(x1, y1, x2, y2, hasLm, lm, isArr, p) ==
    [topLeft |-> <<x1, y1>>, bottomRight |-> <<x2, y2>>,
     hasLandmarks |-> hasLm, landmarks |-> lm,
     probIsArray |-> isArr, probability |-> p]

\* the landmarks of a prediction, scaled
scaleLandmarks(lm, sx, sy) ==
    [i \in 1..Len(lm) |-> Point(Px(lm[i].x) * sx, Px(lm[i].y) * sy)]

\* the body of the loop over predictions, for a prediction that is not skipped
faceOf(p, sx, sy, W, H) ==
    LET x1 == Px(p.topLeft[1]) * sx
        y1 == Px(p.topLeft[2]) * sy
        x2 == Px(p.bottomRight[1]) * sx
        y2 == Px(p.bottomRight[2]) * sy
        width == x2 - x1
        height == y2 - y1
    IN  [x |-> Max(0, x1),
         y |-> Max(0, y1),
         width |-> Min(Px(W) - x1, width),
         height |-> Min(Px(H) - y1, height),
         confidence |-> IF p.probIsArray THEN p.probability ELSE DefaultConfidence,
         landmarks |-> IF p.hasLandmarks
                       THEN scaleLandmarks(p.landmarks, sx, sy)
                       ELSE generateDetailedLandmarks(
                                [x |-> x1, y |-> y1, width |-> width, height |-> height])]

tooSmall(p, sx, sy) ==
    \/ Px(p.bottomRight[1]) * sx - Px(p.topLeft[1]) * sx < Px(MinDetectSize)
    \/ Px(p.bottomRight[2]) * sy - Px(p.topLeft[2]) * sy < Px(MinDetectSize)

\* A plausible slip: the catch block gives up with an empty list.
mockFacesNone(W, H) == <<>>

\* the catch block: two mock regions at fixed fractions of the image
mockRegions(W, H) ==
    << [x |-> Mul(Px(W), 25, 100), y |-> Mul(Px(H), 15, 100),
        width |-> Mul(Px(W), 20, 100), height |-> Mul(Px(H), 30, 100),
        confidence |-> 85],
       [x |-> Mul(Px(W), 55, 100), y |-> Mul(Px(H), 20, 100),
        width |-> Mul(Px(W), 18, 100), height |-> Mul(Px(H), 25, 100),
        confidence |-> 78] >>

withLandmarks(r) ==
    [x |-> r.x, y |-> r.y, width |-> r.width, height |-> r.height,
     confidence |-> r.confidence, landmarks |-> generateDetailedLandmarks(r)]

mockFaces(W, H) == [i \in 1..2 |-> withLandmarks(mockRegions(W, H)[i])]

\* the loop "for (const prediction of predictions)": the faces pushed, in order
RECURSIVE pushFaces(_, _, _, _, _)
pushFaces(preds, sx, sy, W, H) ==
    IF preds = <<>> THEN <<>>
    ELSE (IF tooSmall(Head(preds), sx, sy) THEN <<>>
          ELSE <<faceOf(Head(preds), sx, sy, W, H)>>)
         \o pushFaces(Tail(preds), sx, sy, W, H)

\* A plausible slip: the synthetic regions also stand in for an empty result.
collectFacesOrMock(preds, sx, sy, W, H) ==
    IF pushFaces(preds, sx, sy, W, H) = <<>> THEN mockFaces(W, H)
    ELSE pushFaces(preds, sx, sy, W, H)

\* the value of "faces" at the return of the try block
collectFaces(preds, sx, sy, W, H) == pushFaces(preds, sx, sy, W, H)

\* the condition of the second pass
secondPassDue(preds, W, H) == Len(preds) <= 1 /\ W > targetWidth

\* the predictions kept after the second pass, with their scale
adopted(first, second, W, H) ==
    IF Len(second) > Len(first)
    THEN [preds |-> second, sx |-> downScaleX(W, H), sy |-> downScaleY(W, H)]
    ELSE [preds |-> first, sx |-> 1, sy |-> 1]

----------------------------------------------------------------------------
(* components/ImageProcessor.tsx: the rectangle each effect hands to        *)
(* ctx.getImageData, and whether the call of the effect raises              *)

\* Math.sqrt(dx*dx + dy*dy) for the landmark pairs of this model: level or
\* upright pairs, and pairs whose whole-pixel offsets form a perfect square.
ISqrt(n) == CHOOSE r \in 0..n : r * r <= n /\ (r + 1) * (r + 1) > n

eyeDistance(leftEye, rightEye) ==
    LET dx == rightEye.x - leftEye.x
        dy == rightEye.y - leftEye.y
    IN  IF dy = 0 THEN Abs(dx)
        ELSE IF dx = 0 THEN Abs(dy)
        ELSE Milli * ISqrt((dx \div Milli) * (dx \div Milli)
                           + (dy \div Milli) * (dy \div Milli))

\* angle is atan2(dy, dx), held as the pair <<dy, dx>>
getEyeRegionBounds(face) ==
    IF Len(face.landmarks) >= 2
    THEN LET leftEye == face.landmarks[1]
             rightEye == face.landmarks[2]
             eyePadding == Mul(eyeDistance(leftEye, rightEye), 4, 10)
             centerY == (leftEye.y + rightEye.y) \div 2
         IN  [x |-> Min(leftEye.x, rightEye.x) - eyePadding,
              y |-> centerY - Mul(eyePadding, 5, 10),
              width |-> Abs(rightEye.x - leftEye.x) + eyePadding * 2,
              height |-> eyePadding,
              angle |-> <<rightEye.y - leftEye.y, rightEye.x - leftEye.x>>]
    ELSE [x |-> face.x + Mul(face.width, 15, 100),
          y |-> face.y + Mul(face.height, 25, 100),
          width |-> Mul(face.width, 70, 100),
          height |-> Mul(face.height, 30, 100),
          angle |-> <<0, 1>>]

Rect(x, y, w, h) == [x |-> x, y |-> y, width |-> w, height |-> h]

\* pixelateRegion: Math.round of each of x, y, width, height, no clamping
roundedRect(x, y, w, h) == Rect(Round(x), Round(y), Round(w), Round(h))

\* pixelSortRegion, pixelSortEyeRegion, blurRegion:
\* max(0, floor(x)), max(0, floor(y)), max(1, floor(width)), max(1, floor(height))
clampedRect(x, y, w, h) ==
    Rect(Max(0, Floor(x)), Max(0, Floor(y)), Max(1, Floor(w)), Max(1, Floor(h)))

\* ctx.getImageData(sx, sy, sw, sh) raises IndexSizeError when sw or sh is 0
getImageDataRaises(r) == r.width = 0 \/ r.height = 0

\* blurEyeRegionPrecise: the eye band grown by a tenth of its longer side
blurEyeRect(face) ==
    LET eyeRegion == getEyeRegionBounds(face)
        blurPadding == Mul(Max(eyeRegion.width, eyeRegion.height), 1, 10)
    IN  clampedRect(eyeRegion.x - blurPadding, eyeRegion.y - blurPadding,
                    eyeRegion.width + blurPadding * 2,
                    eyeRegion.height + blurPadding * 2)

\* drawWireframeOverlay: the landmark indices (from 0) whose .x/.y the code
\* reads for a list of n landmarks, were no read to fail
wireframeContour(n) ==
    UNION {{i, i + 1} \cup (IF i % 2 = 0 /\ n > 27 THEN {27 + (i % 9)} ELSE {})
           : i \in 0..(Min(16, n - 1) - 1)}

wireframeBrows(n) ==
    UNION {IF i < 21 /\ i + 1 < n
           THEN {i, i + 1} \cup (IF n > 36 /\ 36 + (i - 17) < n
                                 THEN {36 + (i - 17)} ELSE {})
           ELSE IF i < 26 /\ i + 1 < n
           THEN {i, i + 1} \cup (IF n > 42 /\ 42 + (i - 22) < n
                                 THEN {42 + (i - 22)} ELSE {})
           ELSE {}
           : i \in 17..(Min(26, n) - 1)}

wireframeNose(n) ==
    UNION {{i, i + 1} \cup (IF i > 30 /\ n > 48 /\ 48 + (((i - 31) * 2) % 12) < n
                            THEN {33, 48 + (((i - 31) * 2) % 12)} ELSE {})
           : i \in 27..(Min(35, n - 1) - 1)}

wireframeEyes(n) ==
    IF n > 47
    THEN UNION {{i, i + 1, 39} : i \in 36..(Min(41, n) - 1)} \cup {41, 36}
         \cup UNION {{i, i + 1, 45} : i \in 42..(Min(47, n) - 1)} \cup {47, 42}
    ELSE {}

wireframeMouth(n) ==
    IF n > 67
    THEN UNION {{i, i + 1} \cup (IF i < 55 /\ n > 60 + (i - 48)
                                 THEN {60 + (i - 48)} ELSE {})
                : i \in 48..(Min(59, n) - 1)} \cup {59, 48}
         \cup UNION {{i, i + 1} : i \in 60..(Min(67, n) - 1)} \cup {67, 60}
    ELSE {}

wireframeCross(n) ==
    IF n > 30
    THEN (IF n > 27 /\ n > 8 THEN {27, 8} ELSE {})
         \cup (IF n > 45 /\ n > 36 THEN {36, 45} ELSE {})
    ELSE {}

wireframeReads(n) ==
    IF n = 0 THEN {}
    ELSE wireframeContour(n) \cup wireframeBrows(n) \cup wireframeNose(n)
         \cup wireframeEyes(n) \cup wireframeMouth(n) \cup wireframeCross(n)
         \cup 0..(n - 1)

\* What one call of an effect did: the function that read pixels ("none" when the
\* effect only draws), the rectangle it handed to getImageData, the landmark
\* indices it read, and whether it raised.
Fx(fn, rect, reads, raised) ==
    [fn |-> fn, rect |-> rect, reads |-> reads, raised |-> raised]

NoRect == Rect(0, 0, 0, 0)
NoFx == Fx("none", NoRect, {}, FALSE)

pixelateFx(x, y, w, h) ==
    Fx("pixelateRegion", roundedRect(x, y, w, h), {},
       getImageDataRaises(roundedRect(x, y, w, h)))

eyeReads(face) == IF Len(face.landmarks) >= 2 THEN {0, 1} ELSE {}

\* the switch of applyCensoring over the ten effect kinds
applyCensoring(face, ct) ==
    LET eyeRegion == getEyeRegionBounds(face)
        n == Len(face.landmarks)
    IN  CASE ct = "black-square" -> NoFx
          [] ct = "eye-bar" -> Fx("none", NoRect, eyeReads(face), FALSE)
          [] ct = "pixelated-eyes" ->
                [pixelateFx(eyeRegion.x, eyeRegion.y, eyeRegion.width, eyeRegion.height)
                    EXCEPT !.reads = eyeReads(face)]
          [] ct = "pixelated-face" ->
                pixelateFx(face.x, face.y, face.width, face.height)
          [] ct = "pixel-sort" ->
                Fx("pixelSortRegion",
                   clampedRect(face.x, face.y, face.width, face.height), {}, FALSE)
          [] ct = "pixelsort-eye-bar" ->
                Fx("pixelSortEyeRegion",
                   clampedRect(eyeRegion.x, eyeRegion.y, eyeRegion.width,
                               eyeRegion.height), eyeReads(face), FALSE)
          [] ct = "wireframe" ->
                Fx("none", NoRect, wireframeReads(n),
                   \E k \in wireframeReads(n) : k >= n)
          [] ct = "blur-face" ->
                Fx("blurRegion",
                   clampedRect(face.x, face.y, face.width, face.height), {}, FALSE)
          [] ct = "blur-eyes" ->
                Fx("blurRegion", blurEyeRect(face), eyeReads(face), FALSE)
          [] ct = "show-landmarks" -> Fx("none", NoRect, 0..(n - 1), FALSE)

CensorTypes ==
    {"black-square", "eye-bar", "pixelated-eyes", "pixelated-face", "pixel-sort",
     "pixelsort-eye-bar", "blur-face", "blur-eyes", "wireframe", "show-landmarks"}

----------------------------------------------------------------------------
(* Spec: one image through detectFaces, the page's filter and processImage  *)

\* Images: one below the 640 px cutover, one above it, and an upright one
\* whose height only is above it.
Images == {<<100, 100>>, <<3200, 2400>>, <<100, 800>>}

\* six landmarks as BlazeFace gives them: the two eyes first
SixLandmarks(ex1, ex2, ey) ==
    << Point(ex1, ey), Point(ex2, ey), Point((ex1 + ex2) \div 2, ey + 6),
       Point((ex1 + ex2) \div 2, ey + 12), Point(ex1 - 3, ey + 2),
       Point(ex2 + 3, ey + 2) >>

\* What the detector may return for a face: two overlapping faces, a box with a
\* negative origin, one below the minimum size, one larger than the small
\* image, one starting at its right edge and one beyond its right and bottom
\* edges, a face whose eyes lie near the left edge, and a tilted one.
RawPredictions ==
    { Prediction(10, 10, 40, 40, TRUE, SixLandmarks(18, 32, 20), TRUE, 85),
      Prediction(12, 10, 42, 40, TRUE, SixLandmarks(20, 34, 20), TRUE, 60),
      Prediction(-10, -10, 100, 100, FALSE, <<>>, TRUE, 85),
      Prediction(0, 0, 10, 30, FALSE, <<>>, TRUE, 85),
      Prediction(0, 0, 120, 120, TRUE, <<>>, FALSE, 0),
      Prediction(100, 0, 130, 30, FALSE, <<>>, TRUE, 60),
      Prediction(110, 100, 140, 130, FALSE, <<>>, TRUE, 60),
      Prediction(0, 10, 30, 40, TRUE, SixLandmarks(2, 12, 20), TRUE, 60),
      Prediction(50, 40, 95, 95, TRUE, <<Point(55, 50), Point(85, 90)>>, TRUE, 85) }

PredictionLists == SeqsUpTo(RawPredictions, MaxFaces)

NoPass == [ran |-> FALSE, preds |-> <<>>]
Ran(preds) == [ran |-> TRUE, preds |-> preds]

PipeIdle ==
    /\ imgW = 0 /\ imgH = 0 /\ model = "null" /\ pc = "off"
    /\ pass1 = NoPass /\ pass2 = NoPass /\ detectorFailed = FALSE /\ faces = <<>>
    /\ filteredFaces = <<>> /\ censorType = "none"
    /\ confidenceThreshold = 0 /\ minFaceSize = 0 /\ fi = 0 /\ lastFx = NoFx

\* detectFaces has been called and awaits initializeDetector
Init ==
    /\ NmsIdle /\ SortIdle /\ PixIdle /\ AsyncIdle
    /\ \E im \in Images : imgW = im[1] /\ imgH = im[2]
    /\ model = "null" /\ pc = "init"
    /\ pass1 = NoPass /\ pass2 = NoPass /\ detectorFailed = FALSE /\ faces = <<>>
    /\ filteredFaces = <<>> /\ censorType = "none"
    /\ confidenceThreshold \in {50, 80} /\ minFaceSize \in {20, 50}
    /\ fi = 0 /\ lastFx = NoFx

\* the catch block of detectFaces
Catch ==
    /\ detectorFailed' = TRUE
    /\ faces' = mockFaces(imgW, imgH)
    /\ pc' = "returned"

InitializeDetector ==
    /\ pc = "init"
    /\ model' = "loaded"
    /\ pc' = "pass1"
    /\ UNCHANGED <<imgW, imgH, pass1, pass2, detectorFailed, faces, fxVars, otherThanPipe>>

InitializeDetectorThrows ==
    /\ pc = "init" /\ model = "null"
    /\ Catch
    /\ UNCHANGED <<imgW, imgH, model, pass1, pass2, fxVars, otherThanPipe>>

\* octx: whether the off-screen canvas gave a 2d context
EstimateFaces1 ==
    /\ pc = "pass1"
    /\ \E preds \in PredictionLists, octx \in BOOLEAN :
          /\ pass1' = Ran(preds)
          /\ IF secondPassDue(preds, imgW, imgH) /\ octx
             THEN pc' = "pass2" /\ UNCHANGED faces
             ELSE /\ faces' = collectFaces(preds, 1, 1, imgW, imgH)
                  /\ pc' = "returned"
    /\ UNCHANGED <<imgW, imgH, model, pass2, detectorFailed, fxVars, otherThanPipe>>

EstimateFaces1Throws ==
    /\ pc = "pass1"
    /\ Catch
    /\ UNCHANGED <<imgW, imgH, model, pass1, pass2, fxVars, otherThanPipe>>

EstimateFaces2 ==
    /\ pc = "pass2"
    /\ \E secondary \in PredictionLists :
          /\ pass2' = Ran(secondary)
          /\ LET a == adopted(pass1.preds, secondary, imgW, imgH)
             IN  faces' = collectFaces(a.preds, a.sx, a.sy, imgW, imgH)
    /\ pc' = "returned"
    /\ UNCHANGED <<imgW, imgH, model, pass1, detectorFailed, fxVars, otherThanPipe>>

EstimateFaces2Throws ==
    /\ pc = "pass2"
    /\ Catch
    /\ UNCHANGED <<imgW, imgH, model, pass1, pass2, fxVars, otherThanPipe>>

\* A plausible slip: the filter looks at the confidence only.
passesConfidenceOnly(face, ct, mfs) == face.confidence >= ct

\* pages/Index.tsx handleFacesDetected (and the same filter of processBatch)
passesFilter(face, ct, mfs) ==
    /\ face.confidence >= ct
    /\ face.width >= Px(mfs)
    /\ face.height >= Px(mfs)

filterFaces(fs, ct, mfs) ==
    LET Keep(face) == passesFilter(face, ct, mfs) IN SelectSeq(fs, Keep)

HandleFacesDetected ==
    /\ pc = "returned"
    /\ filteredFaces' = filterFaces(faces, confidenceThreshold, minFaceSize)
    /\ pc' = "filtered"
    /\ UNCHANGED <<imgW, imgH, model, pass1, pass2, detectorFailed, faces,
                   censorType, confidenceThreshold, minFaceSize, fi, lastFx, otherThanPipe>>

\* processImage is called with the selected effect
ProcessImage ==
    /\ pc = "filtered"
    /\ \E ct \in CensorTypes : censorType' = ct
    /\ fi' = 0
    /\ pc' = IF filteredFaces = <<>> THEN "done" ELSE "processing"
    /\ UNCHANGED <<imgW, imgH, model, pass1, pass2, detectorFailed, faces,
                   filteredFaces, confidenceThreshold, minFaceSize, lastFx, otherThanPipe>>

\* one turn of faces.forEach: an effect that raises ends processImage
ApplyCensoring ==
    /\ pc = "processing"
    /\ LET out == applyCensoring(filteredFaces[fi + 1], censorType)
       IN  /\ lastFx' = out
           /\ pc' = IF out.raised THEN "raised"
                    ELSE IF fi + 1 = Len(filteredFaces) THEN "done"
                    ELSE "processing"
    /\ fi' = fi + 1
    /\ UNCHANGED <<imgW, imgH, model, pass1, pass2, detectorFailed, faces,
                   filteredFaces, censorType, confidenceThreshold, minFaceSize, otherThanPipe>>

Next ==
    \/ InitializeDetector
    \/ InitializeDetectorThrows
    \/ EstimateFaces1
    \/ EstimateFaces1Throws
    \/ EstimateFaces2
    \/ EstimateFaces2Throws
    \/ HandleFacesDetected
    \/ ProcessImage
    \/ ApplyCensoring

Spec == Init /\ [][Next]_vars

InitNmsOnly == InitNms /\ PipeIdle /\ SortIdle /\ PixIdle /\ AsyncIdle

SpecNms == InitNmsOnly /\ [][NextNms]_vars

----------------------------------------------------------------------------
(* Claims on detectFaces and processImage *)

\* the merge threshold of the consolidator: the default iouThreshold of nms, 0.35
MergeThreshold == 35

\* a face as a BoxLike in whole pixels (the regions of this model are whole)
InPixels(f) ==
    Box(f.x \div Milli, f.y \div Milli, f.width \div Milli, f.height \div Milli,
        f.confidence)

Returned == pc \in {"returned", "filtered", "processing", "done", "raised"}

\* C2: no two regions of the list detectFaces returns have IoU above 0.35.
DetectedRegionsMerged ==
    Returned =>
        \A i \in 1..Len(faces), j \in 1..Len(faces) :
            i # j => ~Exceeds(iou(InPixels(faces[i]), InPixels(faces[j])),
                              MergeThreshold)

\* the region at (fx*W, fy*H) of size fw*W x fh*H, fractions in hundredths
AtFraction(f, fx, fy, fw, fh) ==
    /\ 100 * f.x = fx * Px(imgW) /\ 100 * f.y = fy * Px(imgH)
    /\ 100 * f.width = fw * Px(imgW) /\ 100 * f.height = fh * Px(imgH)

TwoSyntheticRegions ==
    /\ Len(faces) = 2
    /\ AtFraction(faces[1], 25, 15, 20, 30)
    /\ AtFraction(faces[2], 55, 20, 18, 25)

\* C3: when the detector fails, detectFaces returns (does not reject) exactly the
\* two synthetic regions at the documented fractions of the image.
FallbackOnDetectorFailure == detectorFailed => (Returned /\ TwoSyntheticRegions)

\* C3 witness: estimateFaces threw in the second pass and detectFaces returned.
FailedInSecondPass == detectorFailed /\ pass1.ran /\ pc = "returned"

\* the face the last applyCensoring call was given
LastFace == filteredFaces[fi]

\* C4: after a detector failure processImage over the fallback regions raises
\* for none of the ten effects, and reads no landmark index >= the number of
\* landmarks.
FallbackPipelineCompletes ==
    detectorFailed =>
        /\ pc # "raised"
        /\ fi > 0 => \A k \in lastFx.reads : k < Len(LastFace.landmarks)

\* C5: a detector that runs and finds nothing in every pass gives the empty
\* list; the synthetic regions are returned only when the detector failed.
ZeroFacesIsEmptyList ==
    (Returned /\ ~detectorFailed) =>
        /\ (pass1.preds = <<>> /\ pass2.preds = <<>>) => faces = <<>>
        /\ ~TwoSyntheticRegions

\* C5 witness: both passes ran, found nothing, and detectFaces returned.
BothPassesFoundNothing ==
    /\ pc = "returned" /\ ~detectorFailed /\ pass1.ran /\ pass2.ran
    /\ pass1.preds = <<>> /\ pass2.preds = <<>>

\* C6: every region detectFaces returns lies inside the image.
RegionsInsideImage ==
    Returned =>
        \A i \in 1..Len(faces) :
            /\ faces[i].x >= 0 /\ faces[i].y >= 0
            /\ faces[i].x + faces[i].width <= Px(imgW)
            /\ faces[i].y + faces[i].height <= Px(imgH)

PixelReaders == {"pixelateRegion", "pixelSortRegion", "pixelSortEyeRegion", "blurRegion"}

\* C7: the rectangle an effect reads from and writes back to lies inside
\* [0, bufferWidth) x [0, bufferHeight).
EffectRectInsideBuffer ==
    lastFx.fn \in PixelReaders =>
        /\ lastFx.rect.x >= 0 /\ lastFx.rect.y >= 0
        /\ lastFx.rect.width >= 0 /\ lastFx.rect.height >= 0
        /\ lastFx.rect.x + lastFx.rect.width <= imgW
        /\ lastFx.rect.y + lastFx.rect.height <= imgH

----------------------------------------------------------------------------
(* pixelSortRegion and pixelSortEyeRegion on the ImageData they read *)

MaxRows == 2
MaxWidth == 26

\* columns by which a rectangle may reach beyond the right edge of the canvas
Overhang == 3

Pixel(r, g, b, a) == [r |-> r, g |-> g, b |-> b, a |-> a]

\* transparent black is also what getImageData gives for a sample outside the canvas
Palette == {Pixel(0, 0, 0, 0), Pixel(0, 0, 0, 255), Pixel(255, 255, 255, 255)}

\* r * 0.299 + g * 0.587 + b * 0.114, in thousandths
brightness(p) == 299 * p.r + 587 * p.g + 114 * p.b

\* in thousandths: 60 + 0.6 * intensity, and 40 + 0.4 * intensity for the eye bar
brightnessThreshold(fn, I) ==
    IF fn = "pixelSortRegion" THEN 60000 + 600 * I ELSE 40000 + 400 * I

\* Math.max(1, Math.floor(4 - intensity / 30)); the eye bar takes every row
rowStep(fn, I) == IF fn = "pixelSortRegion" THEN Max(1, (120 - I) \div 30) ELSE 1

\* A plausible slip: both tests are required instead of either.
shouldSortBoth(p, T) == brightness(p) > T /\ brightness(p) < 255000 - T

shouldSort(p, T) == brightness(p) > T \/ brightness(p) < 255000 - T

Span(start, end) == [start |-> start, end |-> end]

\* the scan for runs of sortable pixels longer than minLen; indices from 0
RECURSIVE scanRow(_, _, _, _, _, _)
scanRow(rp, T, minLen, i, intervalStart, acc) ==
    IF i = Len(rp)
    THEN IF intervalStart # -1 /\ Len(rp) - intervalStart > minLen
         THEN Append(acc, Span(intervalStart, Len(rp) - 1))
         ELSE acc
    ELSE IF shouldSort(rp[i + 1], T) /\ intervalStart = -1
         THEN scanRow(rp, T, minLen, i + 1, i, acc)
         ELSE IF ~shouldSort(rp[i + 1], T) /\ intervalStart # -1
              THEN scanRow(rp, T, minLen, i + 1, -1,
                           IF i - intervalStart > minLen
                           THEN Append(acc, Span(intervalStart, i - 1))
                           ELSE acc)
              ELSE scanRow(rp, T, minLen, i + 1, intervalStart, acc)

\* pixelSortRegion: Math.floor(iw * (intensity / 200))
segmentSizeRegion(w, I) == (w * I) \div 200

\* pixelSortRegion's loop "for (start = 0; start < length - segmentSize;
\* start += segmentSize * 2)", for segmentSize > 0
fallbackSegments(len, seg) ==
    LET n == IF len - seg <= 0 THEN 0 ELSE ((len - seg - 1) \div (2 * seg)) + 1
    IN  [j \in 1..n |-> Span((j - 1) * 2 * seg, Min((j - 1) * 2 * seg + seg, len - 1))]

\* that loop never ends when segmentSize is 0
fallbackLoops(rp, w, I) ==
    /\ scanRow(rp, brightnessThreshold("pixelSortRegion", I), 5, 0, -1, <<>>) = <<>>
    /\ I > 30
    /\ segmentSizeRegion(w, I) = 0
    /\ 0 < Len(rp)

regionIntervals(rp, w, I) ==
    LET natural == scanRow(rp, brightnessThreshold("pixelSortRegion", I), 5, 0, -1, <<>>)
    IN  IF natural = <<>> /\ I > 30
        THEN fallbackSegments(Len(rp), segmentSizeRegion(w, I))
        ELSE natural

\* pixelSortEyeRegion: Math.max(8, Math.floor(iw * (30 / intensity)))
segmentSizeEye(w, I) == Max(8, (w * 30) \div I)

\* "for (start = 0; start < length; start += segmentSize)": spans of twice the
\* step, kept when end > start + 4
eyeSegments(len, seg) ==
    LET n == (len + seg - 1) \div seg
        all == [j \in 1..n |-> Span((j - 1) * seg, Min((j - 1) * seg + seg * 2, len - 1))]
        Meaningful(sp) == sp.end > sp.start + 4
    IN  SelectSeq(all, Meaningful)

eyeIntervals(rp, w, I) ==
    eyeSegments(Len(rp), segmentSizeEye(w, I))
        \o scanRow(rp, brightnessThreshold("pixelSortEyeRegion", I), 3, 0, -1, <<>>)

intervalsOf(fn, rp, w, I) ==
    IF fn = "pixelSortRegion" THEN regionIntervals(rp, w, I) ELSE eyeIntervals(rp, w, I)

\* Array.prototype.slice(from, to), indices from 0
slice(rp, from, to) == SubSeq(rp, from + 1, to)

\* one step of a stable ascending sort: p goes after every pixel not brighter
insertByBrightness(sorted, p) ==
    LET n == Cardinality({i \in 1..Len(sorted) : brightness(sorted[i]) <= brightness(p)})
    IN  SubSeq(sorted, 1, n) \o <<p>> \o SubSeq(sorted, n + 1, Len(sorted))

\* intervalPixels.sort((a, b) => a.brightness - b.brightness)
RECURSIVE sortByBrightness(_)
sortByBrightness(ps) ==
    IF ps = <<>> THEN <<>>
    ELSE CHOOSE next \in {insertByBrightness(sorted, ps[Len(ps)]) :
                             sorted \in {sortByBrightness(SubSeq(ps, 1, Len(ps) - 1))}} : TRUE

\* A plausible slip: the sorted pixels are put back from the start of the row.
putBackAtRowStart(rp, interval) ==
    IF interval.end > interval.start
    THEN LET sorted == sortByBrightness(slice(rp, interval.start, interval.end + 1))
         IN  [i \in 1..Len(rp) |-> IF i <= Len(sorted) THEN sorted[i] ELSE rp[i]]
    ELSE rp

\* the body of intervals.forEach: sort the span and put it back in place
sortInterval(rp, interval) ==
    IF interval.end > interval.start
    THEN LET sorted == sortByBrightness(slice(rp, interval.start, interval.end + 1))
         IN  [i \in 1..Len(rp) |->
                 IF i - 1 >= interval.start /\ i - 1 - interval.start < Len(sorted)
                 THEN sorted[i - interval.start]
                 ELSE rp[i]]
    ELSE rp

----------------------------------------------------------------------------
(* SpecSort: one call of a pixel-sort effect, a span sort at a time *)

\* the values of the sort slider used here (min 10, max 100, step 10)
Intensities == {10, 50, 100}

Widths == {1, 3, 5, 6, 14, MaxWidth}

\* rows of one colour and rows of two runs of colour
Rows(w) ==
    {[i \in 1..w |-> IF i <= a THEN c1 ELSE c2] :
        a \in {w \div 2, w - 1}, c1 \in Palette, c2 \in Palette}

\* ctx.getImageData(ix, iy, iw, ih): the canvas pixels of the rectangle, and
\* transparent black for every sample to the right of the canvas
getImageData(cv, w) ==
    [r \in 1..Len(cv) |->
        [c \in 1..w |-> IF c <= Len(cv[r]) THEN cv[r][c] ELSE Pixel(0, 0, 0, 0)]]

\* ctx.putImageData(imageData, ix, iy): samples outside the canvas are dropped
putImageData(d, cw) == [r \in 1..Len(d) |-> SubSeq(d[r], 1, cw)]

\* the effect has read its rectangle with getImageData; the rows of the canvas
\* alternate between two patterns
InitSort ==
    /\ NmsIdle /\ PipeIdle /\ PixIdle /\ AsyncIdle
    /\ sortFn \in {"pixelSortRegion", "pixelSortEyeRegion"}
    /\ intensity \in Intensities
    /\ \E w \in Widths, h \in 1..MaxRows, o \in {0, Overhang} :
          /\ w > o
          /\ iw = w /\ ih = h /\ bufW = w - o
          /\ \E a \in Rows(w - o), b \in Rows(w - o) :
                LET cv == [r \in 1..h |-> IF r % 2 = 1 THEN a ELSE b]
                IN  /\ canvas = cv
                    /\ sampled = getImageData(cv, w)
                    /\ data = getImageData(cv, w)
    /\ row = 0 /\ rowPixels = <<>> /\ intervals = <<>> /\ done = 0
    /\ lastSpan = NoSpan /\ lastBefore = <<>>
    /\ spc = "row" /\ run = 1 /\ firstOut = <<>>

\* the row is extracted and its spans are found
ExtractRow ==
    /\ spc = "row" /\ row < ih
    /\ rowPixels' = data[row + 1]
    /\ IF sortFn = "pixelSortRegion" /\ fallbackLoops(data[row + 1], iw, intensity)
       THEN spc' = "looping" /\ intervals' = <<>>
       ELSE spc' = "sorting" /\ intervals' = intervalsOf(sortFn, data[row + 1], iw, intensity)
    /\ done' = 0
    /\ UNCHANGED <<sortFn, intensity, iw, ih, sampled, data, row, lastSpan, lastBefore,
                   canvas, bufW, run, firstOut, otherThanSort>>

\* one turn of intervals.forEach
SortInterval ==
    /\ spc = "sorting" /\ done < Len(intervals)
    /\ rowPixels' = sortInterval(rowPixels, intervals[done + 1])
    /\ lastSpan' = intervals[done + 1]
    /\ lastBefore' = slice(rowPixels, intervals[done + 1].start, intervals[done + 1].end + 1)
    /\ done' = done + 1
    /\ UNCHANGED <<sortFn, intensity, iw, ih, sampled, data, row, intervals, spc,
                   canvas, bufW, run, firstOut, otherThanSort>>

\* the sorted row is written back to imageData.data; the loop steps on
WriteRow ==
    /\ spc = "sorting" /\ done = Len(intervals)
    /\ data' = [data EXCEPT ![row + 1] = rowPixels]
    /\ row' = row + rowStep(sortFn, intensity)
    /\ spc' = "row"
    /\ UNCHANGED <<sortFn, intensity, iw, ih, sampled, rowPixels, intervals, done,
                   lastSpan, lastBefore, canvas, bufW, run, firstOut,
                   otherThanSort>>

\* ctx.putImageData(imageData, ix, iy)
PutImageData ==
    /\ spc = "row" /\ row >= ih
    /\ spc' = "put"
    /\ canvas' = putImageData(data, bufW)
    /\ UNCHANGED <<sortFn, intensity, iw, ih, sampled, data, row, rowPixels, intervals,
                   done, lastSpan, lastBefore, bufW, run, firstOut,
                   otherThanSort>>

\* the same effect is applied again, with the same rectangle and intensity
SortAgain ==
    /\ spc = "put" /\ run = 1
    /\ firstOut' = canvas
    /\ run' = 2
    /\ sampled' = getImageData(canvas, iw)
    /\ data' = getImageData(canvas, iw)
    /\ row' = 0 /\ rowPixels' = <<>> /\ intervals' = <<>> /\ done' = 0
    /\ lastSpan' = NoSpan /\ lastBefore' = <<>>
    /\ spc' = "row"
    /\ UNCHANGED <<sortFn, intensity, iw, ih, canvas, bufW, otherThanSort>>

NextSort ==
    \/ ExtractRow
    \/ SortInterval
    \/ WriteRow
    \/ PutImageData
    \/ SortAgain

SpecSort == InitSort /\ [][NextSort]_vars

----------------------------------------------------------------------------
(* Claims on the pixel sorts *)

\* the multiset of RGBA values of a sequence of pixels
BagOf(ps) == [p \in Range(ps) |-> Cardinality({i \in 1..Len(ps) : ps[i] = p})]

Processed(r) == r % rowStep(sortFn, intensity) = 0

\* the spans sorted in row r: those found in the row as it was read
SortedSpans(r) ==
    LET found == intervalsOf(sortFn, sampled[r + 1], iw, intensity)
    IN  {found[j] : j \in {j \in 1..Len(found) : found[j].end > found[j].start}}

SameBagInSpan(r, sp) ==
    BagOf(slice(data[r + 1], sp.start, sp.end + 1))
        = BagOf(slice(sampled[r + 1], sp.start, sp.end + 1))

\* C10 as stated: for both variants, every processed row and every span sorted
\* in it, the multiset of RGBA values inside the span after the effect equals
\* the multiset inside it before the effect.
SpanMultisetKeptOverEffect ==
    spc = "put" =>
        \A r \in 0..(ih - 1) :
            Processed(r) => \A sp \in SortedSpans(r) : SameBagInSpan(r, sp)

\* C10 amended: every single span sort leaves the multiset of RGBA values of
\* its span as it was just before that sort; over the whole effect every
\* processed row keeps its multiset and every other row is untouched; and in
\* pixelSortRegion, whose spans are disjoint, every sorted span keeps its
\* multiset over the whole effect.
SortPermutesSpanAndRow ==
    /\ (spc = "sorting" /\ done > 0) =>
           BagOf(slice(rowPixels, lastSpan.start, lastSpan.end + 1)) = BagOf(lastBefore)
    /\ spc = "put" =>
           \A r \in 0..(ih - 1) :
               IF Processed(r)
               THEN /\ BagOf(data[r + 1]) = BagOf(sampled[r + 1])
                    /\ sortFn = "pixelSortRegion" =>
                           \A sp \in SortedSpans(r) : SameBagInSpan(r, sp)
               ELSE data[r + 1] = sampled[r + 1]

\* C10 witness: an eye-bar sort that ended after sorting overlapping spans and
\* moving pixels.
OverlappingSpansSorted ==
    /\ spc = "put" /\ sortFn = "pixelSortEyeRegion" /\ data # sampled
    /\ \E i \in 1..Len(intervals), j \in 1..Len(intervals) :
          /\ i < j /\ intervals[j].start > intervals[i].start
          /\ intervals[j].start <= intervals[i].end

\* C11: re-applying a pixel sort with the same rectangle and intensity to its
\* own output changes no pixel of the buffer.
ResortChangesNothing == (spc = "put" /\ run = 2) => canvas = firstOut

----------------------------------------------------------------------------
(* pixelateRegion and blurRegion on the ImageData they read *)

Channels == {"r", "g", "b", "a"}

\* the sum of one channel over a set of cells <<column, row>>, indices from 0
RECURSIVE sumCells(_, _, _)
sumCells(d, cells, ch) ==
    IF cells = {} THEN 0
    ELSE LET c == CHOOSE c \in cells : TRUE
         IN  d[c[2] + 1][c[1] + 1][ch] + sumCells(d, cells \ {c}, ch)

\* the cells of the block of pixelateRegion that holds (px, py): the block
\* starts at a multiple of pixelSize and is cut at the edge of the rectangle
blockCells(px, py, w, h, pixelSize) ==
    LET blockX == (px \div pixelSize) * pixelSize
        blockY == (py \div pixelSize) * pixelSize
        blockWidth == Min(pixelSize, w - blockX)
        blockHeight == Min(pixelSize, h - blockY)
    IN  {<<bx, by>> : bx \in blockX..(blockX + blockWidth - 1),
                      by \in blockY..(blockY + blockHeight - 1)}

\* A plausible slip: the mean is cut off instead of rounded.
flooredMean(sum, count) == sum \div count

\* Math.round(sum / count)
roundedMean(sum, count) == (2 * sum + count) \div (2 * count)

\* the loops over blocks: every pixel of a block gets the block's mean
pixelate(d, w, h, pixelSize) ==
    [py \in 1..h |->
        [px \in 1..w |->
            LET cells == blockCells(px - 1, py - 1, w, h, pixelSize)
                mean(ch) == roundedMean(sumCells(d, cells, ch), Cardinality(cells))
            IN  Pixel(mean("r"), mean("g"), mean("b"), mean("a"))]]

\* A plausible slip: the sample index wraps around instead of being clamped.
wrappedIndex(i, n) == i % n

\* Math.max(0, Math.min(n - 1, i))
clampIndex(i, n) == Max(0, Min(n - 1, i))

\* the sum of one channel over the 2 * radius + 1 clamped samples around i
RECURSIVE tapSum(_, _, _, _, _)
tapSum(line, i, kk, radius, ch) ==
    IF kk > radius THEN 0
    ELSE line[clampIndex(i + kk, Len(line)) + 1][ch] + tapSum(line, i, kk + 1, radius, ch)

\* storing sum / count in a Uint8ClampedArray: the nearest integer (count is
\* odd, so there is no tie)
toUint8(sum, count) == (2 * sum + count) \div (2 * count)

\* A plausible slip: the samples are read from the array being written.
sourceInPlace(orig, out) == out

\* the samples are read from the copy `original`, not from `data`
source(orig, out) == orig

\* the loop over the samples of a line: sample c of `data` is written from
\* the 2 * radius + 1 samples read around it
RECURSIVE blurLoop(_, _, _, _)
blurLoop(orig, out, c, radius) ==
    IF c = Len(orig) THEN out
    ELSE LET avg(ch) == toUint8(tapSum(source(orig, out), c, 0 - radius, radius, ch),
                                2 * radius + 1)
         IN  blurLoop(orig,
                      [out EXCEPT ![c + 1] = Pixel(avg("r"), avg("g"), avg("b"), avg("a"))],
                      c + 1, radius)

\* one 1D box blur of a line of pixels
blurLine(line, radius) == blurLoop(line, line, 0, radius)

transpose(d) == [c \in 1..Len(d[1]) |-> [r \in 1..Len(d) |-> d[r][c]]]

\* the horizontal and the vertical pass, each reading the copy "original"
horizontalPass(d, radius) == [r \in 1..Len(d) |-> blurLine(d[r], radius)]
verticalPass(d, radius) == transpose(horizontalPass(transpose(d), radius))

----------------------------------------------------------------------------
(* SpecPixels: one call of pixelateRegion or of blurRegion *)

\* block sides: 1, and two values of the pixel-size slider (4 to 20, default 12)
PixelSizes == {1, 4, 12}

\* radii: 0, 1, and the radius of both call sites, 8
Radii == {0, 1, 8}

\* the scenario rectangle: 8 x 8 pixels of solid red
SolidRed == [r \in 1..8 |-> [c \in 1..8 |-> Pixel(255, 0, 0, 255)]]

mirrored(line) == [i \in 1..Len(line) |-> line[Len(line) + 1 - i]]

\* rectangles whose rows alternate between a pattern and either the same
\* pattern or its mirror image
PixImages ==
    {[r \in 1..h |-> IF r % 2 = 1 THEN t[1] ELSE IF t[2] THEN mirrored(t[1]) ELSE t[1]] :
        h \in 1..MaxRows, t \in UNION {Rows(w) \X BOOLEAN : w \in Widths}}
    \cup {SolidRed}

\* the effect has read its rectangle with getImageData; pixOut is
\* imageData.data, which the effect works on
InitPixels ==
    /\ NmsIdle /\ PipeIdle /\ SortIdle /\ AsyncIdle
    /\ \/ pixFn = "pixelateRegion" /\ pixParam \in PixelSizes /\ ppc = "read"
       \/ pixFn = "blurRegion" /\ pixParam \in Radii /\ ppc = "horizontal"
    /\ pixIn \in PixImages
    /\ pixOut = pixIn
    /\ original = pixIn
    /\ pass = 0

PixelateRegion ==
    /\ ppc = "read" /\ pixFn = "pixelateRegion"
    /\ pixOut' = pixelate(pixOut, Len(pixOut[1]), Len(pixOut), pixParam)
    /\ ppc' = "put"
    /\ UNCHANGED <<pixFn, pixParam, pixIn, pass, original, otherThanPix>>

\* blurRegion, the horizontal pass of one of the three passes
BlurHorizontal ==
    /\ ppc = "horizontal" /\ pixFn = "blurRegion" /\ pass < 3
    /\ original' = pixOut
    /\ pixOut' = horizontalPass(pixOut, pixParam)
    /\ ppc' = "vertical"
    /\ UNCHANGED <<pixFn, pixParam, pixIn, pass, otherThanPix>>

\* blurRegion, the vertical pass; after the third one the data is put back
BlurVertical ==
    /\ ppc = "vertical" /\ pixFn = "blurRegion"
    /\ original' = pixOut
    /\ pixOut' = verticalPass(pixOut, pixParam)
    /\ pass' = pass + 1
    /\ ppc' = IF pass + 1 < 3 THEN "horizontal" ELSE "put"
    /\ UNCHANGED <<pixFn, pixParam, pixIn, otherThanPix>>

NextPixels ==
    \/ PixelateRegion
    \/ BlurHorizontal
    \/ BlurVertical

SpecPixels == InitPixels /\ [][NextPixels]_vars

----------------------------------------------------------------------------
(* Claims on pixelateRegion and blurRegion *)

PixW == Len(pixIn[1])
PixH == Len(pixIn)

Uniform(d) == \A r \in 1..Len(d), c \in 1..Len(d[1]) : d[r][c] = d[1][1]

\* the grid block of side n that holds the cell (px, py), cut at the rectangle
GridBlock(px, py, n) ==
    {<<bx, by>> \in (0..(PixW - 1)) \X (0..(PixH - 1)) :
        bx \div n = px \div n /\ by \div n = py \div n}

\* v is the mean sum / count rounded to the nearest integer, halves upwards
IsRoundedMean(v, sum, count) ==
    2 * sum - count < 2 * v * count /\ 2 * v * count <= 2 * sum + count

\* C12: pixelateRegion overwrites every pixel of each grid block (partial at
\* the right and bottom edges) with the rounded mean of each channel over the
\* block's input pixels; a uniform rectangle or a block side of 1 is unchanged.
PixelateWritesBlockMeans ==
    (ppc = "put" /\ pixFn = "pixelateRegion") =>
        /\ \A py \in 0..(PixH - 1), px \in 0..(PixW - 1), ch \in Channels :
              IsRoundedMean(pixOut[py + 1][px + 1][ch],
                            sumCells(pixIn, GridBlock(px, py, pixParam), ch),
                            Cardinality(GridBlock(px, py, pixParam)))
        /\ Uniform(pixIn) => pixOut = pixIn
        /\ pixParam = 1 => pixOut = pixIn

\* C12 witness: a rectangle with a partial block at its right edge was
\* pixelated and changed.
PixelatedWithPartialBlock ==
    /\ ppc = "put" /\ pixFn = "pixelateRegion"
    /\ PixW > pixParam /\ PixW % pixParam # 0
    /\ pixOut # pixIn

\* the input cells within q columns and q rows of (c, r), inside the rectangle
Neighbourhood(c, r, q) ==
    (Max(0, c - q)..Min(PixW - 1, c + q)) \X (Max(0, r - q)..Min(PixH - 1, r + q))

\* every output channel lies between the least and the greatest input value
\* of its neighbourhood of reach q
WithinNeighbourhood(q) ==
    \A r \in 0..(PixH - 1), c \in 0..(PixW - 1), ch \in Channels :
        /\ \E n \in Neighbourhood(c, r, q) :
              pixIn[n[2] + 1][n[1] + 1][ch] <= pixOut[r + 1][c + 1][ch]
        /\ \E n \in Neighbourhood(c, r, q) :
              pixIn[n[2] + 1][n[1] + 1][ch] >= pixOut[r + 1][c + 1][ch]

\* C13: after blurRegion with radius r every channel of every output pixel
\* lies between the minimum and the maximum of that channel over the input
\* pixels of its neighbourhood inside the rectangle, which for the three
\* passes has reach 3 * r; with r = 0 the output equals the input.
BlurWithinThreePassReach ==
    (ppc = "put" /\ pixFn = "blurRegion") =>
        /\ WithinNeighbourhood(3 * pixParam)
        /\ pixParam = 0 => pixOut = pixIn

\* C13 witness: a blur with a positive radius changed a rectangle wider than
\* the reach of the three passes.
BlurredWideRectangle ==
    /\ ppc = "put" /\ pixFn = "blurRegion"
    /\ pixParam > 0 /\ 3 * pixParam < PixW - 1
    /\ pixOut # pixIn

----------------------------------------------------------------------------
(* Claims on the order, the failures and the regions of processImage *)

InProcessImage == pc \in {"processing", "done", "raised"}

\* C14: processImage applies the effect to the regions in order of descending
\* confidence, so that the lower-confidence region of an overlap is written
\* last.
AppliedByDescendingConfidence ==
    InProcessImage =>
        \A i \in 1..Len(filteredFaces), j \in 1..Len(filteredFaces) :
            i < j => filteredFaces[i].confidence >= filteredFaces[j].confidence

\* C15: an effect that raises for one region does not keep processImage from
\* applying the effect to every other region and returning the buffer.
RegionFailuresIsolated ==
    /\ pc # "raised"
    /\ pc = "done" => fi = Len(filteredFaces)

EveryRegionHasLandmarks ==
    Returned => \A i \in 1..Len(faces) : Len(faces[i].landmarks) >= 1

----------------------------------------------------------------------------
(* SpecDetector: detectFaces calls that overlap in time, and cleanupDetector *)

MaxCallers == 2
MaxCalls == 4

Callers == 1..MaxCallers

\* no detectFaces call has been made; the model is not loaded
InitDetector ==
    /\ NmsIdle /\ PipeIdle /\ SortIdle /\ PixIdle /\ BatchIdle /\ PageIdle
    /\ handle = 0 /\ loads = 0 /\ calls = 0
    /\ cpc = [c \in Callers |-> "idle"]
    /\ detector = [c \in Callers |-> 0]

\* detectFaces is called: initializeDetector tests !model and either returns
\* the handle or starts to await tf.ready()
DetectFaces(c) ==
    /\ cpc[c] = "idle" /\ calls < MaxCalls
    /\ calls' = calls + 1
    /\ IF handle # 0
       THEN cpc' = [cpc EXCEPT ![c] = "got"] /\ detector' = [detector EXCEPT ![c] = handle]
       ELSE cpc' = [cpc EXCEPT ![c] = "ready"] /\ detector' = [detector EXCEPT ![c] = 0]
    /\ UNCHANGED <<handle, loads, otherThanDetector>>

\* tf.ready() resolves and blazeface.load is called
TfReady(c) ==
    /\ cpc[c] = "ready"
    /\ cpc' = [cpc EXCEPT ![c] = "loading"]
    /\ UNCHANGED <<handle, loads, calls, detector, otherThanDetector>>

\* blazeface.load resolves: a new model is assigned to `model` and returned
LoadResolves(c) ==
    /\ cpc[c] = "loading"
    /\ handle' = calls * MaxCallers + c
    /\ loads' = loads + 1
    /\ cpc' = [cpc EXCEPT ![c] = "got"]
    /\ detector' = [detector EXCEPT ![c] = calls * MaxCallers + c]
    /\ UNCHANGED <<calls, otherThanDetector>>

\* tf.ready() or blazeface.load rejects: detectFaces goes to its catch block
InitializeRejects(c) ==
    /\ cpc[c] \in {"ready", "loading"}
    /\ cpc' = [cpc EXCEPT ![c] = "idle"]
    /\ UNCHANGED <<handle, loads, calls, detector, otherThanDetector>>

\* the rest of detectFaces: the call returns
DetectFacesReturns(c) ==
    /\ cpc[c] = "got"
    /\ cpc' = [cpc EXCEPT ![c] = "idle"]
    /\ detector' = [detector EXCEPT ![c] = 0]
    /\ UNCHANGED <<handle, loads, calls, otherThanDetector>>

cleanupDetector ==
    /\ handle # 0
    /\ handle' = 0
    /\ loads' = 0
    /\ UNCHANGED <<calls, cpc, detector, otherThanDetector>>

Call == \E c \in Callers : DetectFaces(c)
Ready == \E c \in Callers : TfReady(c)
Loaded == \E c \in Callers : LoadResolves(c)
Rejected == \E c \in Callers : InitializeRejects(c)
Finished == \E c \in Callers : DetectFacesReturns(c)

NextDetector ==
    \/ Call
    \/ Ready
    \/ Loaded
    \/ Rejected
    \/ Finished
    \/ cleanupDetector

SpecDetector == InitDetector /\ [][NextDetector]_vars

\* C17: between two calls of cleanupDetector the model is loaded at most once,
\* however the detectFaces calls interleave.
LoadedAtMostOnce == loads <= 1

----------------------------------------------------------------------------
(* SpecBatch: the image list of BatchProcessor and processBatch *)

MaxImages == 3

\* what detectFaces resolves to for an image of 100 x 100 pixels: the fallback
\* regions, or the faces of at most one prediction
BatchDetections ==
    {mockFaces(100, 100)}
    \cup {collectFaces(preds, 1, 1, 100, 100) : preds \in SeqsUpTo(RawPredictions, 1)}

\* A plausible slip: the update forgets to compare the id.
markEvery(imgs, id, status) == [i \in 1..Len(imgs) |-> status]

\* prev.map(img => img.id === imageData.id ? { ...img, status } : img)
markStatus(imgs, id, status) ==
    [i \in 1..Len(imgs) |-> IF i = id THEN status ELSE imgs[i]]

\* processImage raises when applyCensoring raises for one of the faces
processImageRaises(fs, ct) ==
    \E n \in 1..Len(fs) : applyCensoring(fs[n], ct).raised

\* images.filter(img => img.status === 'completed' || images.find(i =>
\* i.id === img.id)?.status === 'completed').length, on the list closed over
completedCount(imgs) == Cardinality({i \in 1..Len(imgs) : imgs[i] = "completed"})

\* the component is mounted with an empty list
InitBatch ==
    /\ NmsIdle /\ PipeIdle /\ SortIdle /\ PixIdle /\ DetectorIdle /\ PageIdle
    /\ images = <<>> /\ isProcessing = FALSE /\ progress = <<0, 1>>
    /\ captured = 0 /\ bi = 0 /\ begun = {} /\ ended = {}
    /\ batchFaces = <<>> /\ closure = <<>> /\ reported = -1
    /\ \E ct \in {"black-square", "wireframe", "blur-eyes"}, mfs \in {20, 50} :
          props = [censorType |-> ct, confidenceThreshold |-> 50, minFaceSize |-> mfs]
    /\ bpc = "idle"

\* handleFileSelect: an image is appended with status 'pending'
HandleFileSelect ==
    /\ bpc # "off" /\ Len(images) < MaxImages
    /\ images' = Append(images, "pending")
    /\ bpc' = IF bpc = "finished" THEN "idle" ELSE bpc
    /\ UNCHANGED <<isProcessing, progress, captured, bi, begun, ended, batchFaces,
                   props, closure, reported, otherThanBatch>>

\* Clear All, disabled while isProcessing
ClearBatch ==
    /\ bpc # "off" /\ ~isProcessing /\ images # <<>>
    /\ images' = <<>>
    /\ progress' = <<0, 1>>
    /\ bpc' = "idle"
    /\ UNCHANGED <<isProcessing, captured, bi, begun, ended, batchFaces, props,
                   closure, reported, otherThanBatch>>

\* the Process Batch button, disabled while isProcessing: processBatch runs up
\* to its first await, the detectFaces call for image 0
ProcessBatch ==
    /\ bpc # "off" /\ ~isProcessing /\ Len(images) > 0
    /\ isProcessing' = TRUE
    /\ progress' = <<0, 1>>
    /\ captured' = Len(images)
    /\ closure' = images
    /\ bi' = 0
    /\ images' = markStatus(images, 1, "processing")
    /\ begun' = {1}
    /\ ended' = {}
    /\ bpc' = "detect"
    /\ UNCHANGED <<batchFaces, props, reported, otherThanBatch>>

\* detectFaces resolves for image i: the faces are filtered, processImage
\* returns or raises, the status is set, and the loop goes on to image i + 1
\* (up to its detectFaces call) or ends
ImageHandled ==
    /\ bpc = "detect"
    /\ \E detectedFaces \in BatchDetections :
          LET filtered == filterFaces(detectedFaces, props.confidenceThreshold,
                                      props.minFaceSize)
              status == IF processImageRaises(filtered, props.censorType)
                        THEN "error" ELSE "completed"
              marked == markStatus(images, bi + 1, status)
          IN  /\ batchFaces' = filtered
              /\ IF bi + 1 < captured
                 THEN /\ images' = markStatus(marked, bi + 2, "processing")
                      /\ begun' = begun \cup {bi + 2}
                      /\ UNCHANGED <<isProcessing, reported, bpc>>
                 ELSE /\ images' = marked
                      /\ isProcessing' = FALSE
                      /\ reported' = completedCount(closure)
                      /\ bpc' = "finished"
                      /\ UNCHANGED begun
    /\ ended' = ended \cup {bi + 1}
    /\ progress' = <<bi + 1, captured>>
    /\ bi' = bi + 1
    /\ UNCHANGED <<captured, props, closure, otherThanBatch>>

NextBatch ==
    \/ HandleFileSelect
    \/ ClearBatch
    \/ ProcessBatch
    \/ ImageHandled

SpecBatch == InitBatch /\ [][NextBatch]_vars

Processing == {i \in 1..Len(images) : images[i] = "processing"}

\* C18: processBatch handles the images one at a time: at most one image is
\* being detected or processed, none when no batch runs, and the detection of
\* an image has started only if every image before it is 'completed' or
\* 'error'.
BatchStrictlySequential ==
    /\ Cardinality(Processing) <= 1
    /\ Cardinality(begun \ ended) <= 1
    /\ ~isProcessing => Processing = {}
    /\ isProcessing =>
          /\ Processing = begun \ ended
          /\ \A i \in begun : \A j \in 1..(i - 1) :
                j \in ended /\ images[j] \in {"completed", "error"}

\* C18 witness: the batch is at its second image or later, after an image
\* that ended in 'error'.
BatchPastFailedImage ==
    /\ isProcessing /\ bi >= 1 /\ images[bi + 1] = "processing"
    /\ \E j \in 1..bi : images[j] = "error"

----------------------------------------------------------------------------
(* Claims on the order and the selection of nms *)

\* the place of input box i in descending confidence order, ties in input order
Rank(i) ==
    1 + Cardinality({j \in 1..Len(boxes) :
                        \/ boxes[j].confidence > boxes[i].confidence
                        \/ boxes[j].confidence = boxes[i].confidence /\ j < i})

\* the input box that has place p
AtRank(p) == boxes[CHOOSE i \in 1..Len(boxes) : Rank(i) = p]

\* the set K of places is what the greedy selection keeps: a place is in K
\* exactly when its box has IoU <= t with the box of every earlier place in K
GreedySelection(K) ==
    \A p \in 1..Len(boxes) :
        p \in K <=> \A q \in K : q < p => ~Exceeds(iou(AtRank(p), AtRank(q)), iouThreshold)

\* the boxes of the places in K, in ascending order of place
BoxesAt(K) ==
    [n \in 1..Cardinality(K) |->
        AtRank(CHOOSE p \in K : Cardinality({q \in K : q < p}) = n - 1)]

ScenarioFirst == Box(200, 100, 160, 240, 85)
ScenarioSecond == Box(210, 105, 150, 230, 60)

\* C20: nms goes over the boxes by descending confidence, ties in input order,
\* and keeps a box exactly when its IoU with every box kept before is <= t;
\* its result is ordered by descending confidence and starts with the first
\* box of highest confidence; of the two boxes of the scenario at t = 0.35 it
\* keeps the first only.
NmsGreedyByConfidence ==
    npc \in {"nms", "again"} =>
        /\ \E K \in SUBSET (1..Len(boxes)) : GreedySelection(K) /\ kept = BoxesAt(K)
        /\ \A i \in 1..Len(kept), j \in 1..Len(kept) :
              i < j => kept[i].confidence >= kept[j].confidence
        /\ boxes # <<>> => (kept # <<>> /\ kept[1] = AtRank(1))
        /\ (boxes = <<ScenarioFirst, ScenarioSecond>> /\ iouThreshold = MergeThreshold)
              => kept = <<ScenarioFirst>>

\* C20 witness: nms has run on a list that has the two boxes of the scenario
\* in the order given and, before them, a lower-confidence box that it keeps.
NmsScenarioWithTie ==
    /\ npc = "nms" /\ iouThreshold = MergeThreshold
    /\ Len(boxes) = 3 /\ boxes[2] = ScenarioFirst /\ boxes[3] = ScenarioSecond
    /\ boxes[1].confidence = 60
    /\ kept = <<ScenarioFirst, boxes[1]>>

----------------------------------------------------------------------------
(* Claims on the passes of detectFaces *)

\* detectFaces came back by its try block, after the native pass
ReturnedFromPasses == pc = "returned" /\ ~detectorFailed /\ pass1.ran

\* C21: the downscaled pass runs exactly when the native pass gave at most one
\* region and the larger dimension of the image exceeds 640 px; its result is
\* adopted, rescaled to native space, only if it has strictly more regions,
\* and otherwise the native result is kept unscaled.
SecondPassByLargerDimension ==
    ReturnedFromPasses =>
        /\ pass2.ran <=> (Len(pass1.preds) <= 1 /\ Max(imgW, imgH) > targetWidth)
        /\ faces = IF pass2.ran /\ Len(pass2.preds) > Len(pass1.preds)
                   THEN collectFaces(pass2.preds, downScaleX(imgW, imgH),
                                     downScaleY(imgW, imgH), imgW, imgH)
                   ELSE collectFaces(pass1.preds, 1, 1, imgW, imgH)

\* the number of estimateFaces calls detectFaces has made
estimateCalls == (IF pass1.ran THEN 1 ELSE 0) + (IF pass2.ran THEN 1 ELSE 0)

\* the predictions detectFaces holds after the native and the downscaled pass
AfterBothPasses == adopted(pass1.preds, pass2.preds, imgW, imgH).preds

\* C22: when the native and the downscaled pass leave at most one region, the
\* detector is run on the tiles of the image as well, so that it has been run
\* more often than twice when detectFaces returns.
TilesRunWhenFewRegions ==
    (ReturnedFromPasses /\ Len(AfterBothPasses) <= 1) => estimateCalls > 2

----------------------------------------------------------------------------
(* Claims on getEyeRegionBounds *)

\* the effects that take their rectangle from getEyeRegionBounds
EyeBandEffects == {"pixelated-eyes", "pixelsort-eye-bar", "blur-eyes"}

\* applyCensoring has just taken the eye band of LastFace
EyeBandTaken == fi > 0 /\ censorType \in EyeBandEffects

\* C23: for a region with at least two landmarks the eye band is centred on
\* the midpoint of landmarks 0 and 1, its long side is 1.8 times the distance
\* d between them, and its angle is atan2(dy, dx), for tilted pairs as well.
EyeBandSpansEyeDistance ==
    (EyeBandTaken /\ Len(LastFace.landmarks) >= 2) =>
        LET band == getEyeRegionBounds(LastFace)
            leftEye == LastFace.landmarks[1]
            rightEye == LastFace.landmarks[2]
        IN  /\ 10 * band.width = 18 * eyeDistance(leftEye, rightEye)
            /\ 2 * band.x + band.width = leftEye.x + rightEye.x
            /\ 2 * band.y + band.height = leftEye.y + rightEye.y
            /\ band.angle = <<rightEye.y - leftEye.y, rightEye.x - leftEye.x>>

\* C24: for a region with fewer than two landmarks the eye band starts 20% to
\* 35% of the region height below its top, is 25% to 40% of that height tall,
\* has the x and the width of the region, and angle 0.
FallbackBandFullWidth ==
    (EyeBandTaken /\ Len(LastFace.landmarks) < 2) =>
        LET band == getEyeRegionBounds(LastFace)
        IN  /\ 100 * (band.y - LastFace.y) >= 20 * LastFace.height
            /\ 100 * (band.y - LastFace.y) <= 35 * LastFace.height
            /\ 100 * band.height >= 25 * LastFace.height
            /\ 100 * band.height <= 40 * LastFace.height
            /\ band.x = LastFace.x /\ band.width = LastFace.width
            /\ band.angle = <<0, 1>>

----------------------------------------------------------------------------
(* Termination of the pixel sorts *)

\* rows of at most this many pixels have no span of their own: a span is
\* kept only if it is longer
NarrowWidth == 5

\* the effects on narrow rectangles, where every step that can be taken is
\* taken
InitSortNarrow == InitSort /\ iw <= NarrowWidth

SpecSortNarrow == InitSortNarrow /\ [][NextSort]_vars /\ WF_vars(NextSort)

\* C27: pixelSortRegion comes to its putImageData call for every rectangle
\* and every intensity, rows narrower than their fallback segments included.
PixelSortTerminates == sortFn = "pixelSortRegion" => <>(spc = "put")

----------------------------------------------------------------------------
(* Claims on the thresholds of pixelSortRegion *)

\* the greys of every luminance 0..255
Greys == {Pixel(v, v, v, 255) : v \in 0..255}

\* pixelSortRegion has just found the spans of a row
RegionRowScanned == sortFn = "pixelSortRegion" /\ spc = "sorting" /\ done = 0

\* C30: in pixelSortRegion the threshold T is below 255 - T for the intensity
\* of the call, every pixel of every luminance is sortable, every processed
\* row of at least 6 pixels is one span over the whole row, and a row of at
\* most 5 pixels gets the synthesized spans, or none.
WholeRowIsOneSpan ==
    RegionRowScanned =>
        LET T == brightnessThreshold("pixelSortRegion", intensity)
        IN  /\ \A I \in 10..100 :
                  brightnessThreshold("pixelSortRegion", I)
                      < 255000 - brightnessThreshold("pixelSortRegion", I)
            /\ \A p \in Greys \cup Range(rowPixels) : shouldSort(p, T)
            /\ iw >= 6 => intervals = <<Span(0, iw - 1)>>
            /\ iw <= 5 =>
                  intervals = IF intensity > 30
                              THEN fallbackSegments(iw, segmentSizeRegion(iw, intensity))
                              ELSE <<>>

\* C30 witness: a row of more than 5 pixels holding dark and bright pixels
\* was taken as one span.
MixedRowTakenWhole ==
    /\ RegionRowScanned /\ iw >= 6
    /\ intervals = <<Span(0, iw - 1)>>
    /\ \E i \in 1..iw, j \in 1..iw : brightness(rowPixels[i]) < brightness(rowPixels[j])

----------------------------------------------------------------------------
(* Claims on the pixels an effect leaves alone *)

\* the rectangle x, y, width, height the effect of a pixel-reading censor
\* type is asked to transform, in thousandths of a pixel
effectTarget(face, ct) ==
    LET eyeRegion == getEyeRegionBounds(face)
        blurPadding == Mul(Max(eyeRegion.width, eyeRegion.height), 1, 10)
    IN  IF ct \in {"pixelated-eyes", "pixelsort-eye-bar"}
        THEN Rect(eyeRegion.x, eyeRegion.y, eyeRegion.width, eyeRegion.height)
        ELSE IF ct = "blur-eyes"
        THEN Rect(eyeRegion.x - blurPadding, eyeRegion.y - blurPadding,
                  eyeRegion.width + blurPadding * 2, eyeRegion.height + blurPadding * 2)
        ELSE Rect(face.x, face.y, face.width, face.height)

\* the whole pixels from..(from + size - 1) lie in [start, start + length),
\* give or take the pixel that rounding start or length may add
WithinSpan(from, size, start, length) ==
    /\ Px(from) >= start - Milli
    /\ Px(from + size) <= start + length + Milli

\* C26: the rectangle a pixel effect writes back lies inside its target
\* rectangle [x, x + width) x [y, y + height), so that no pixel outside the
\* target is modified, also when x or y of the target is negative.
EffectWritesInsideTarget ==
    (fi > 0 /\ lastFx.fn \in PixelReaders /\ ~lastFx.raised) =>
        LET target == effectTarget(LastFace, censorType)
        IN  /\ WithinSpan(lastFx.rect.x, lastFx.rect.width, target.x, target.width)
            /\ WithinSpan(lastFx.rect.y, lastFx.rect.height, target.y, target.height)

----------------------------------------------------------------------------
(* Claims on the passes of blurRegion *)

\* how many of the 2 * radius + 1 samples around index i of a line of n
\* samples fall, after clamping, on index j
Taps(i, j, n, radius) ==
    Cardinality({kk \in (0 - radius)..radius :
                    IF i + kk < 0 THEN j = 0
                    ELSE IF i + kk > n - 1 THEN j = n - 1
                    ELSE j = i + kk})

\* the sum of f[j] over a set of indices j
RECURSIVE weightedSum(_, _)
weightedSum(f, S) ==
    IF S = {} THEN 0
    ELSE LET j == CHOOSE j \in S : TRUE IN f[j] + weightedSum(f, S \ {j})

\* sample (c, r) of pixOut is the rounded mean of the clamped window around
\* it in the snapshot, along the row (horizontal) or the column
MeanOfSnapshot(c, r, ch, horizontal) ==
    LET n == IF horizontal THEN PixW ELSE PixH
        at == IF horizontal THEN c ELSE r
        value(j) == IF horizontal THEN original[r + 1][j + 1][ch]
                    ELSE original[j + 1][c + 1][ch]
        weighted == [j \in 0..(n - 1) |-> Taps(at, j, n, pixParam) * value(j)]
    IN  IsRoundedMean(pixOut[r + 1][c + 1][ch], weightedSum(weighted, 0..(n - 1)),
                      2 * pixParam + 1)

\* a 1D pass of blurRegion has just ended, and which one
AfterHorizontal == pixFn = "blurRegion" /\ ppc = "vertical"
AfterVertical == pixFn = "blurRegion" /\ pass > 0 /\ ppc \in {"horizontal", "put"}

\* C25: blurRegion makes exactly three passes, each a horizontal 1D box blur
\* followed by a vertical one with clamped sample indices, and every sample a
\* 1D pass writes is the mean of the values the data had when that pass began.
BlurPassesReadSnapshot ==
    /\ (pixFn = "blurRegion" /\ ppc = "put") => pass = 3
    /\ AfterHorizontal =>
          /\ pass < 3
          /\ \A r \in 0..(PixH - 1), c \in 0..(PixW - 1), ch \in Channels :
                MeanOfSnapshot(c, r, ch, TRUE)
    /\ AfterVertical =>
          \A r \in 0..(PixH - 1), c \in 0..(PixW - 1), ch \in Channels :
              MeanOfSnapshot(c, r, ch, FALSE)

\* C25 witness: the third horizontal pass has changed a row in which a value
\* written in this pass differs from the value the pass read at that place.
ThirdPassOverChangedRow ==
    /\ AfterHorizontal /\ pass = 2 /\ pixParam > 0
    /\ \E c \in 2..PixW : pixOut[1][c - 1] # original[1][c - 1]

----------------------------------------------------------------------------
(* Claims on the end of processBatch *)

\* the images of the batch that this run has marked 'completed'
CompletedInRun == {i \in 1..captured : images[i] = "completed"}

\* C29: when processBatch finishes every image of its batch is 'completed' or
\* 'error', progress is 100, and the count of the completion message is the
\* number of images that became 'completed' in this run.
BatchEndsWithTrueCount ==
    bpc = "finished" =>
        /\ \A i \in 1..captured : images[i] \in {"completed", "error"}
        /\ progress[1] * 100 = 100 * progress[2]
        /\ reported = Cardinality(CompletedInRun)

----------------------------------------------------------------------------
(* SpecPage: the single-image mode of pages/Index.tsx with the upload zone *)
(* and Clear button of CombinedUploadPreview.tsx                           *)

MaxSelections == 3

\* useState(0.5) and useState(50): the detection controls the page starts with
controls == [confidenceThreshold |-> 50, minFaceSize |-> 50]

\* the page is mounted: no image, no faces
InitPage ==
    /\ NmsIdle /\ PipeIdle /\ SortIdle /\ PixIdle /\ DetectorIdle /\ BatchIdle
    /\ originalImage = 0 /\ pageFaces = <<>> /\ pageFiltered = <<>> /\ facesOf = 0
    /\ reading = {} /\ detecting = {} /\ selected = 0
    /\ gpc = "page"

\* handleFileSelect up to reader.readAsDataURL(file); the upload zone is
\* rendered only while originalImage is null
SelectFile ==
    /\ gpc = "page" /\ originalImage = 0 /\ selected < MaxSelections
    /\ selected' = selected + 1
    /\ reading' = reading \cup {selected + 1}
    /\ UNCHANGED <<originalImage, pageFaces, pageFiltered, facesOf, detecting, gpc,
                   otherThanPage>>

\* img.onload: onImageLoad(img, url), i.e. handleImageLoad, then detectFaces(img)
\* is called and awaited
ImageLoads(id) ==
    /\ gpc = "page" /\ id \in reading
    /\ originalImage' = id
    /\ reading' = reading \ {id}
    /\ detecting' = detecting \cup {id}
    /\ UNCHANGED <<pageFaces, pageFiltered, facesOf, selected, gpc, otherThanPage>>

\* the awaited detectFaces(img) resolves: onFacesDetected(detectedFaces), i.e.
\* handleFacesDetected
FacesDetected(id) ==
    /\ gpc = "page" /\ id \in detecting
    /\ \E detectedFaces \in BatchDetections :
          /\ pageFaces' = detectedFaces
          /\ pageFiltered' = filterFaces(detectedFaces, controls.confidenceThreshold,
                                         controls.minFaceSize)
    /\ facesOf' = id
    /\ detecting' = detecting \ {id}
    /\ UNCHANGED <<originalImage, reading, selected, gpc, otherThanPage>>

\* handleClearImage; the Clear button is rendered only while an image is loaded
ClearImage ==
    /\ gpc = "page" /\ originalImage # 0
    /\ originalImage' = 0
    /\ pageFaces' = <<>> /\ pageFiltered' = <<>> /\ facesOf' = 0
    /\ UNCHANGED <<reading, detecting, selected, gpc, otherThanPage>>

NextPage ==
    \/ SelectFile
    \/ \E id \in 1..MaxSelections : ImageLoads(id)
    \/ \E id \in 1..MaxSelections : FacesDetected(id)
    \/ ClearImage

SpecPage == InitPage /\ [][NextPage]_vars

\* C28: in single-image mode the faces the page holds are always those of the
\* image now loaded: with no image loaded the lists are empty, and a detection
\* of an image since cleared or replaced never sets them.
FacesBelongToLoadedImage ==
    gpc = "page" =>
        /\ originalImage = 0 => (pageFaces = <<>> /\ pageFiltered = <<>>)
        /\ facesOf \in {0, originalImage}

=============================================================================
